---------------------------- MODULE Spec2Model ----------------------------
(***************************************************************************)
(* A model of fairpy's bi-directional bag filling                          *)
(* (items/one_of_threehalves_mms.py), of ValuationMatrix (valuations.py)   *)
(* and of the fairness predicates of Agent (indivisible/agents.py).        *)
(*                                                                         *)
(* Python indices are kept: agents are 0..n-1 and objects 0..m-1.  A       *)
(* matrix is a sequence of rows, so _v[i][j] is written v[i+1][j+1].       *)
(* An optional value (None or x) is the sequence <<>> or <<x>>.            *)
(***************************************************************************)
EXTENDS Integers, Sequences, FiniteSets, TLC

VARIABLES
    pc,                 \* the position of the running call
    valuation_matrix,   \* the argument valuation_matrix (list of rows)
    thresholds,         \* the argument thresholds
    created,            \* TRUE once SequentialAllocation and Bag exist
    remaining_objects,  \* allocation.remaining_objects
    remaining_agents,   \* allocation.remaining_agents
    bundles,            \* allocation.bundles
    bag,                \* bag.objects
    willing_agent,      \* the local willing_agent
    allocated_objects,  \* the local allocated_objects
    error,              \* the exception that left the call, if any
    result,             \* the returned Allocation, if any
    rounds,             \* how often the loop body has run to its end
    matrix_v,           \* self._v of the ValuationMatrix being normalized
    before,             \* self._v as it was before the last normalize()
    normalize_returned, \* what the last normalize() returned
    verify_returned,    \* how the last verify_normalized() ended
    valuation,          \* self.valuation of the Agent
    own_bundle,         \* the argument own_bundle
    all_bundles,        \* the argument all_bundles
    answers             \* what is_EF, is_EF1, is_EFx and is_PROP returned

bagvars == <<pc, valuation_matrix, thresholds, created, remaining_objects,
             remaining_agents, bundles, bag, willing_agent,
             allocated_objects, error, result, rounds>>

normvars == <<matrix_v, before, normalize_returned, verify_returned>>

fairvars == <<valuation, own_bundle, all_bundles, answers>>

vars == <<bagvars, normvars, fairvars>>

---------------------------------------------------------------------------
(* Bounds of the inputs.                                                   *)

MaxAgents == 2
MaxObjects == 4
MaxValue == 1
MaxThreshold == 2
\* inputs that are not checked for order or shape (rows of any order,
\* thresholds of any length)
MaxRawAgents == 2
MaxRawObjects == 2
\* the matrices that are normalized
MaxNormAgents == 2
MaxNormObjects == 2
MaxEntry == 2
\* the valuations and allocations that an Agent is asked about
MaxItems == 2
MaxWorth == 1
MaxBundles == 2

---------------------------------------------------------------------------
(* Generic helpers.                                                        *)

None == <<>>
Some(x) == <<x>>
NoAgent == -1

SeqRange(s) == {s[i] : i \in 1..Len(s)}

\* the sum of the first k elements of s
SumTo(s, k) ==
    LET sum[j \in 0..k] == IF j = 0 THEN 0 ELSE sum[j - 1] + s[j]
    IN sum[k]

SumSeq(s) == SumTo(s, Len(s))

RECURSIVE Reverse(_)
Reverse(s) == IF s = <<>> THEN <<>> ELSE Append(Reverse(Tail(s)), Head(s))

\* Python range(k) as a list
RECURSIVE Range(_)
Range(k) == IF k <= 0 THEN <<>> ELSE Append(Range(k - 1), k - 1)

RECURSIVE Without(_, _)
Without(s, S) ==
    IF s = <<>> THEN <<>>
    ELSE IF Head(s) \in S THEN Without(Tail(s), S)
    ELSE <<Head(s)>> \o Without(Tail(s), S)

---------------------------------------------------------------------------
(* ValuationMatrix (valuations.py).                                        *)

num_of_agents(v) == Len(v)
num_of_objects(v) == IF Len(v) = 0 THEN 0 ELSE Len(v[1])

agents(v) == Range(num_of_agents(v))

\* variant: the objects in descending index order
objects_reversed(v) == Reverse(Range(num_of_objects(v)))
objects(v) == Range(num_of_objects(v))

\* sum([self._v[agent][object] for object in bundle]), 0 for None
agent_value_for_bundle(v, agent, bundle) ==
    IF bundle = None THEN 0
    ELSE SumSeq([k \in 1..Len(bundle[1]) |-> v[agent + 1][bundle[1][k] + 1]])

\* variant: <= where verify_ordered has <
row_not_ordered_strict(v, i) ==
    \E j \in 0..(num_of_objects(v) - 2) : v[i + 1][j + 1] <= v[i + 1][j + 2]

\* any(v_i[j] < v_i[j+1] for j in range(self.num_of_objects-1))
row_not_ordered(v, i) ==
    \E j \in 0..(num_of_objects(v) - 2) : v[i + 1][j + 1] < v[i + 1][j + 2]

\* verify_ordered: the agents whose row raises; the loop raises at the first
not_ordered_agents(v) ==
    {i \in 0..(num_of_agents(v) - 1) : row_not_ordered(v, i)}

first_not_ordered(v) ==
    CHOOSE i \in not_ordered_agents(v) : \A k \in not_ordered_agents(v) : i <= k

\* np.sum(self._v, axis=1)
total_values(v) == [i \in 1..Len(v) |-> SumSeq(v[i])]

RECURSIVE gcd(_, _)
gcd(a, b) == IF b = 0 THEN a ELSE gcd(b, a % b)

\* np.lcm of two non-negative integers
lcm(a, b) == IF a = 0 \/ b = 0 THEN 0 ELSE (a * b) \div gcd(a, b)

\* np.lcm.reduce over a non-empty list
RECURSIVE lcm_reduce(_)
lcm_reduce(s) ==
    IF Len(s) = 1 THEN s[1] ELSE lcm(Head(s), lcm_reduce(Tail(s)))

\* variant: self._v *= total_value
normalize_without_division(v) ==
    LET totals == total_values(v)
        total_value == lcm_reduce(totals)
    IN [v |-> [i \in 1..Len(v) |->
                  [j \in 1..Len(v[i]) |-> v[i][j] * total_value]],
        total_value |-> total_value]

\* normalize() of an integer matrix: the new self._v and the returned
\* total_value
normalize(v) ==
    LET totals == total_values(v)
        total_value == lcm_reduce(totals)
    IN [v |-> [i \in 1..Len(v) |->
                  [j \in 1..Len(v[i]) |->
                      v[i][j] * (total_value \div totals[i])]],
        total_value |-> total_value]

\* verify_normalized(): raises ValueError or returns total_values[0]
verify_normalized(v) ==
    IF \A i \in 1..Len(v) : total_values(v)[i] = total_values(v)[1]
    THEN [raised |-> FALSE, value |-> total_values(v)[1]]
    ELSE [raised |-> TRUE, value |-> 0]

---------------------------------------------------------------------------
(* Bag and SequentialAllocation (fairpy.items.bag_filling).                *)

\* Bag.append(item)
Bag_append(b, item) == Append(b, item)

\* Bag.reset()
Bag_reset(b) == <<>>

\* the first agent of candidate_agents that values the bag at or above its
\* threshold, NoAgent if there is none
RECURSIVE Bag_willing_agent(_, _, _, _)
Bag_willing_agent(v, t, b, candidate_agents) ==
    IF candidate_agents = <<>> THEN NoAgent
    ELSE IF agent_value_for_bundle(v, Head(candidate_agents), Some(b))
              >= t[Head(candidate_agents) + 1]
         THEN Head(candidate_agents)
         ELSE Bag_willing_agent(v, t, b, Tail(candidate_agents))

\* Bag.fill(candidate_items, candidate_agents): the next item is added and
\* then the bag is tested, until an agent is willing or the items run out
RECURSIVE Bag_fill(_, _, _, _, _, _)
Bag_fill(v, t, b, candidate_items, candidate_agents, consumed) ==
    IF candidate_items = <<>>
    THEN [agent |-> NoAgent, objects |-> consumed, bag |-> b]
    ELSE LET b2 == Bag_append(b, Head(candidate_items))
             w == Bag_willing_agent(v, t, b2, candidate_agents)
         IN IF w # NoAgent
            THEN [agent |-> w, objects |-> b2, bag |-> b2]
            ELSE Bag_fill(v, t, b2, Tail(candidate_items), candidate_agents,
                          Append(consumed, Head(candidate_items)))

---------------------------------------------------------------------------
(* bidirectional_bag_filling (items/one_of_threehalves_mms.py).            *)

NoError == [kind |-> "none", agent |-> NoAgent, row |-> <<>>,
            agents |-> 0, thresholds |-> 0]

\* variant: allocation.remaining_objects[-1]
highest_valued_object_last == remaining_objects[Len(remaining_objects)]

\* allocation.remaining_objects[0]
highest_valued_object == remaining_objects[1]

\* variant: allocation.remaining_objects[1:], not reversed
lowest_valued_objects_forward == Tail(remaining_objects)

\* reversed(allocation.remaining_objects[1:])
lowest_valued_objects == Reverse(Tail(remaining_objects))

\* valuation_matrix.verify_ordered() raises
RaiseNotOrdered ==
    /\ pc = "start"
    /\ not_ordered_agents(valuation_matrix) # {}
    /\ LET i == first_not_ordered(valuation_matrix)
       IN error' = [NoError EXCEPT !.kind = "not ordered", !.agent = i,
                                   !.row = valuation_matrix[i + 1]]
    /\ pc' = "raised"
    /\ UNCHANGED <<normvars, fairvars>>
    /\ UNCHANGED <<valuation_matrix, thresholds, created, rounds,
                   remaining_objects,
                   remaining_agents, bundles, bag, willing_agent,
                   allocated_objects, result>>

\* len(thresholds) != valuation_matrix.num_of_agents
RaiseThresholdsDiffer ==
    /\ pc = "start"
    /\ not_ordered_agents(valuation_matrix) = {}
    /\ Len(thresholds) # num_of_agents(valuation_matrix)
    /\ error' = [NoError EXCEPT !.kind = "thresholds differ",
                                !.agents = num_of_agents(valuation_matrix),
                                !.thresholds = Len(thresholds)]
    /\ pc' = "raised"
    /\ UNCHANGED <<normvars, fairvars>>
    /\ UNCHANGED <<valuation_matrix, thresholds, created, rounds,
                   remaining_objects,
                   remaining_agents, bundles, bag, willing_agent,
                   allocated_objects, result>>

\* allocation = SequentialAllocation(agents(), objects(), logger);
\* bag = Bag(valuation_matrix, thresholds)
Construct ==
    /\ pc = "start"
    /\ not_ordered_agents(valuation_matrix) = {}
    /\ Len(thresholds) = num_of_agents(valuation_matrix)
    /\ created' = TRUE
    /\ remaining_agents' = agents(valuation_matrix)
    /\ remaining_objects' = objects(valuation_matrix)
    /\ bundles' = [a \in 0..(num_of_agents(valuation_matrix) - 1) |-> None]
    /\ bag' = <<>>
    /\ pc' = "loop"
    /\ UNCHANGED <<normvars, fairvars>>
    /\ UNCHANGED <<valuation_matrix, rounds, thresholds, willing_agent,
                   allocated_objects, error, result>>

\* return Allocation(valuation_matrix, allocation.bundles)
Allocation == Some(bundles)

\* if len(allocation.remaining_objects)==0: break, and the return
ReturnNoObjects ==
    /\ pc = "loop"
    /\ Len(remaining_objects) = 0
    /\ result' = Allocation
    /\ pc' = "done"
    /\ UNCHANGED <<normvars, fairvars>>
    /\ UNCHANGED <<valuation_matrix, thresholds, created, rounds,
                   remaining_objects,
                   remaining_agents, bundles, bag, willing_agent,
                   allocated_objects, error>>

\* variant: the remaining agents are handed to fill in reverse order
FillBag_agents_reversed ==
    /\ pc = "loop"
    /\ Len(remaining_objects) # 0
    /\ \E r \in {Bag_fill(valuation_matrix, thresholds,
                          Bag_append(bag, highest_valued_object),
                          lowest_valued_objects, Reverse(remaining_agents),
                          <<>>)} :
          /\ willing_agent' = r.agent
          /\ allocated_objects' = r.objects
          /\ bag' = r.bag
    /\ pc' = "decide"
    /\ UNCHANGED <<normvars, fairvars>>
    /\ UNCHANGED <<valuation_matrix, thresholds, created, rounds,
                   remaining_objects,
                   remaining_agents, bundles, error, result>>

\* bag.append(highest_valued_object);
\* (willing_agent, allocated_objects) = bag.fill(lowest_valued_objects,
\*                                              allocation.remaining_agents)
FillBag ==
    /\ pc = "loop"
    /\ Len(remaining_objects) # 0
    /\ \E r \in {Bag_fill(valuation_matrix, thresholds,
                          Bag_append(bag, highest_valued_object),
                          lowest_valued_objects, remaining_agents, <<>>)} :
          /\ willing_agent' = r.agent
          /\ allocated_objects' = r.objects
          /\ bag' = r.bag
    /\ pc' = "decide"
    /\ UNCHANGED <<normvars, fairvars>>
    /\ UNCHANGED <<valuation_matrix, thresholds, created, rounds,
                   remaining_objects,
                   remaining_agents, bundles, error, result>>

\* variant: if willing_agent is None: continue
ReturnNoAgent_continues ==
    /\ pc = "decide"
    /\ willing_agent = NoAgent
    /\ pc' = "loop"
    /\ UNCHANGED <<normvars, fairvars>>
    /\ UNCHANGED <<valuation_matrix, thresholds, created, rounds,
                   remaining_objects,
                   remaining_agents, bundles, bag, willing_agent,
                   allocated_objects, error, result>>

\* if willing_agent is None: break, and the return
ReturnNoAgent ==
    /\ pc = "decide"
    /\ willing_agent = NoAgent
    /\ result' = Allocation
    /\ pc' = "done"
    /\ UNCHANGED <<normvars, fairvars>>
    /\ UNCHANGED <<valuation_matrix, thresholds, created, rounds,
                   remaining_objects,
                   remaining_agents, bundles, bag, willing_agent,
                   allocated_objects, error>>

\* SequentialAllocation.let_agent_get_objects(agent, objs)
let_agent_get_objects(agent, objs) ==
    /\ bundles' = [bundles EXCEPT ![agent] = Some(objs)]
    /\ remaining_agents' = Without(remaining_agents, {agent})
    /\ remaining_objects' = Without(remaining_objects, SeqRange(objs))

\* variant: the first remaining agent gets the objects
Allot_first_agent ==
    /\ pc = "decide"
    /\ willing_agent # NoAgent
    /\ let_agent_get_objects(remaining_agents[1], allocated_objects)
    /\ bag' = Bag_reset(bag)
    /\ pc' = "loop"
    /\ UNCHANGED <<normvars, fairvars>>
    /\ rounds' = rounds + 1
    /\ UNCHANGED <<valuation_matrix, thresholds, created, willing_agent,
                   allocated_objects, error, result>>

\* variant: bag.reset() is left out
Allot_no_reset ==
    /\ pc = "decide"
    /\ willing_agent # NoAgent
    /\ let_agent_get_objects(willing_agent, allocated_objects)
    /\ pc' = "loop"
    /\ UNCHANGED <<normvars, fairvars>>
    /\ rounds' = rounds + 1
    /\ UNCHANGED <<valuation_matrix, thresholds, created, bag, willing_agent,
                   allocated_objects, error, result>>

\* allocation.let_agent_get_objects(willing_agent, allocated_objects);
\* bag.reset()
Allot ==
    /\ pc = "decide"
    /\ willing_agent # NoAgent
    /\ let_agent_get_objects(willing_agent, allocated_objects)
    /\ bag' = Bag_reset(bag)
    /\ pc' = "loop"
    /\ UNCHANGED <<normvars, fairvars>>
    /\ rounds' = rounds + 1
    /\ UNCHANGED <<valuation_matrix, thresholds, created, willing_agent,
                   allocated_objects, error, result>>

---------------------------------------------------------------------------
(* The inputs.                                                             *)

IsOrderedRow(r) == \A j \in 1..(Len(r) - 1) : r[j] >= r[j + 1]

Matrices(n, m, rows) == IF n = 0 THEN {<<>>} ELSE [1..n -> rows]

OrderedRows(m) == {r \in [1..m -> 0..MaxValue] : IsOrderedRow(r)}

\* a low and a high threshold
ThresholdValues == {1, MaxThreshold}

\* ordered matrices with one threshold for each agent
OrderedInput(v, t) ==
    \E n \in 0..MaxAgents, m \in 0..MaxObjects :
        /\ v \in Matrices(n, m, OrderedRows(m))
        /\ t \in [1..n -> ThresholdValues]

\* rows in any order, thresholds of any length
RawInput(v, t) ==
    \E n \in 0..MaxRawAgents, m \in 0..MaxRawObjects,
       k \in 0..(MaxRawAgents + 1) :
        /\ v \in Matrices(n, m, [1..m -> 0..MaxValue])
        /\ t = [i \in 1..k |-> MaxThreshold]

\* the instances of the doctest of bidirectional_bag_filling
identical_valuations == <<97, 96, 90, 12, 3, 2, 1, 1, 1>>
DoctestMatrix == [i \in 1..3 |-> identical_valuations]
DoctestInput(v, t) ==
    /\ v = DoctestMatrix
    /\ t \in {<<100, 100, 100>>, <<101, 101, 101>>}

BagInit ==
    /\ \/ OrderedInput(valuation_matrix, thresholds)
       \/ RawInput(valuation_matrix, thresholds)
       \/ DoctestInput(valuation_matrix, thresholds)
    /\ pc = "start"
    /\ created = FALSE
    /\ remaining_objects = <<>>
    /\ remaining_agents = <<>>
    /\ bundles = <<>>
    /\ bag = <<>>
    /\ willing_agent = NoAgent
    /\ allocated_objects = <<>>
    /\ rounds = 0
    /\ error = NoError
    /\ result = None

\* no ValuationMatrix is being normalized
NormIdle ==
    /\ matrix_v = <<>>
    /\ before = <<>>
    /\ normalize_returned = None
    /\ verify_returned = None

\* no Agent is being asked
FairIdle ==
    /\ valuation = [kind |-> "none", of |-> <<>>]
    /\ own_bundle = {}
    /\ all_bundles = <<>>
    /\ answers = None

Init == BagInit /\ NormIdle /\ FairIdle

BagNext ==
    \/ RaiseNotOrdered
    \/ RaiseThresholdsDiffer
    \/ Construct
    \/ ReturnNoObjects
    \/ FillBag
    \/ ReturnNoAgent
    \/ Allot

Next == BagNext

Spec == Init /\ [][Next]_vars

---------------------------------------------------------------------------
(* Calls of normalize() and verify_normalized() on an integer matrix.      *)

\* no call of bidirectional_bag_filling is running
BagIdle ==
    /\ pc = "idle"
    /\ valuation_matrix = <<>>
    /\ thresholds = <<>>
    /\ created = FALSE
    /\ remaining_objects = <<>>
    /\ remaining_agents = <<>>
    /\ bundles = <<>>
    /\ bag = <<>>
    /\ willing_agent = NoAgent
    /\ allocated_objects = <<>>
    /\ rounds = 0
    /\ error = NoError
    /\ result = None

\* integer matrices with at least one agent, every row total positive
NormInput(v) ==
    \E n \in 1..MaxNormAgents, m \in 1..MaxNormObjects :
        /\ v \in [1..n -> [1..m -> 0..MaxEntry]]
        /\ \A i \in 1..n : SumSeq(v[i]) > 0

NormInit ==
    /\ NormInput(matrix_v)
    /\ before = matrix_v
    /\ normalize_returned = None
    /\ verify_returned = None
    /\ BagIdle
    /\ FairIdle

\* total_value = self.normalize()
Normalize ==
    /\ before' = matrix_v
    /\ LET r == normalize(matrix_v)
       IN /\ matrix_v' = r.v
          /\ normalize_returned' = Some(r.total_value)
    /\ verify_returned' = None
    /\ UNCHANGED <<bagvars, fairvars>>

\* self.verify_normalized()
VerifyNormalized ==
    /\ verify_returned = None
    /\ verify_returned' = Some(verify_normalized(matrix_v))
    /\ UNCHANGED <<matrix_v, before, normalize_returned>>
    /\ UNCHANGED <<bagvars, fairvars>>

NormNext ==
    \/ Normalize
    \/ VerifyNormalized

SpecNorm == NormInit /\ [][NormNext]_vars

---------------------------------------------------------------------------
(* Valuations (fairpy.indivisible.valuations): a valuation is a record     *)
(* [kind, of], where of is the bundle-to-value map of a Monotone           *)
(* valuation, the item-to-value map of an Additive one and the set of      *)
(* desired items of a Binary one.                                          *)

Items == 1..MaxItems

RECURSIVE SumOver(_, _)
SumOver(f, S) ==
    IF S = {} THEN 0
    ELSE LET x == CHOOSE y \in S : TRUE IN f[x] + SumOver(f, S \ {x})

MinOf(S) == CHOOSE x \in S : \A y \in S : x <= y
MaxOf(S) == CHOOSE x \in S : \A y \in S : x >= y

Valuation_value(val, bundle) ==
    CASE val.kind = "Monotone" -> val.of[bundle]
      [] val.kind = "Additive" -> SumOver(val.of, bundle)
      [] val.kind = "Binary" -> Cardinality(bundle \cap val.of)

Valuation_total_value(val) == Valuation_value(val, Items)

\* the values of the bundle with c of its goods removed
ValuesExcept(val, bundle, c) ==
    {Valuation_value(val, bundle \ G) :
        G \in {H \in SUBSET bundle : Cardinality(H) = c}}

Valuation_value_except_best_c_goods(val, bundle, c) ==
    IF Cardinality(bundle) <= c THEN 0
    ELSE MinOf(ValuesExcept(val, bundle, c))

Valuation_value_except_worst_c_goods(val, bundle, c) ==
    IF Cardinality(bundle) <= c THEN 0
    ELSE MaxOf(ValuesExcept(val, bundle, c))

Valuation_is_EF(val, own, all) ==
    \A k \in 1..Len(all) :
        Valuation_value(val, own) >= Valuation_value(val, all[k])

Valuation_is_EF1(val, own, all) ==
    \A k \in 1..Len(all) :
        Valuation_value(val, own)
            >= Valuation_value_except_best_c_goods(val, all[k], 1)

Valuation_is_EFx(val, own, all) ==
    \A k \in 1..Len(all) :
        Valuation_value(val, own)
            >= Valuation_value_except_worst_c_goods(val, all[k], 1)

\* value(own) >= total_value() / num_of_agents, for num_of_agents > 0
Valuation_is_PROP(val, own, n) ==
    Valuation_value(val, own) * n >= Valuation_total_value(val)

---------------------------------------------------------------------------
(* Agent (indivisible/agents.py): every method hands over to the           *)
(* valuation.                                                              *)

value(val, bundle) == Valuation_value(val, bundle)

total_value(val) == Valuation_total_value(val)

value_except_best_c_goods(val, bundle, c) ==
    Valuation_value_except_best_c_goods(val, bundle, c)

value_except_worst_c_goods(val, bundle, c) ==
    Valuation_value_except_worst_c_goods(val, bundle, c)

is_EFx(val, own, all) == Valuation_is_EFx(val, own, all)

\* variant: is_EF hands over to valuation.is_EF1
is_EF_asks_EF1(val, own, all) == Valuation_is_EF1(val, own, all)
is_EF(val, own, all) == Valuation_is_EF(val, own, all)

\* variant: is_EF1 hands over to valuation.is_EF
is_EF1_asks_EF(val, own, all) == Valuation_is_EF(val, own, all)
is_EF1(val, own, all) == Valuation_is_EF1(val, own, all)

is_PROP(val, own, n) == Valuation_is_PROP(val, own, n)

IsMonotoneMap(f) ==
    /\ f[{}] = 0
    /\ \A A \in SUBSET Items : \A B \in SUBSET A : f[B] <= f[A]

\* MonotoneAgent, AdditiveAgent and BinaryAgent
AgentInputs ==
    {[kind |-> "Monotone", of |-> f] :
        f \in {g \in [SUBSET Items -> 0..MaxWorth] : IsMonotoneMap(g)}}
    \cup {[kind |-> "Additive", of |-> f] : f \in [Items -> 0..MaxWorth]}
    \cup {[kind |-> "Binary", of |-> d] : d \in SUBSET Items}

\* lists of pairwise disjoint bundles, as in an Allocation
BundleLists ==
    UNION {{a \in [1..n -> SUBSET Items] :
               \A i, j \in 1..n : i # j => a[i] \cap a[j] = {}} :
           n \in 1..MaxBundles}

FairInit ==
    /\ valuation \in AgentInputs
    /\ own_bundle \in SUBSET Items
    /\ all_bundles \in BundleLists
    /\ answers = None
    /\ BagIdle
    /\ NormIdle

\* a client asks the agent about its bundle in the allocation
Audit ==
    /\ answers = None
    /\ answers' = Some([EF |-> is_EF(valuation, own_bundle, all_bundles),
                        EF1 |-> is_EF1(valuation, own_bundle, all_bundles),
                        EFx |-> is_EFx(valuation, own_bundle, all_bundles),
                        PROP |-> is_PROP(valuation, own_bundle,
                                         Len(all_bundles))])
    /\ UNCHANGED <<valuation, own_bundle, all_bundles>>
    /\ UNCHANGED <<bagvars, normvars>>

FairNext == Audit

SpecFair == FairInit /\ [][FairNext]_vars

---------------------------------------------------------------------------
(* Properties of bidirectional_bag_filling.                                *)

Given(a) == bundles[a] # None
BundleOf(a) == SeqRange(bundles[a][1])
IsIncreasing(s) == \A i \in 1..(Len(s) - 1) : s[i] < s[i + 1]

RECURSIVE IsSubseq(_, _)
IsSubseq(s, t) ==
    IF s = <<>> THEN TRUE
    ELSE IF t = <<>> THEN FALSE
    ELSE IF Head(s) = Head(t) THEN IsSubseq(Tail(s), Tail(t))
    ELSE IsSubseq(s, Tail(t))

\* C1: every agent that has been given a bundle values it (the sum of its
\* own row over the bundle's objects) at or above its own threshold.
C1_BundleMeetsThreshold ==
    \A a \in DOMAIN bundles :
        Given(a) =>
            agent_value_for_bundle(valuation_matrix, a, bundles[a])
                >= thresholds[a + 1]

\* the run has ended and the second agent, not the first, holds a bundle
C1_Witness ==
    /\ pc = "done"
    /\ num_of_agents(valuation_matrix) = 2
    /\ ~Given(0)
    /\ Given(1)

\* C2: the finalized bundles are pairwise disjoint, an agent with a bundle
\* has left remaining_agents (so it gets no second one), no object of a
\* finalized bundle is still in remaining_objects, and the bag is empty at
\* the start of every round.
C2_BundlesDisjoint ==
    /\ \A a, b \in DOMAIN bundles :
          (a # b /\ Given(a) /\ Given(b)) => BundleOf(a) \cap BundleOf(b) = {}
    /\ \A a \in DOMAIN bundles :
          Given(a) =>
             /\ a \notin SeqRange(remaining_agents)
             /\ Cardinality(BundleOf(a)) = Len(bundles[a][1])
             /\ BundleOf(a) \cap SeqRange(remaining_objects) = {}
    /\ pc = "loop" => bag = <<>>

\* a second round has started after two agents were given bundles
C2_Witness ==
    /\ pc = "loop"
    /\ Cardinality({a \in DOMAIN bundles : Given(a)}) >= 2

\* C3: the two instances of the doctest: thresholds 100 give {0,6,7,8},
\* {1,4,5} and {2,3} with values 100, 101 and 102; thresholds 101 give
\* {0,5,6,7,8} and {1,3,4} with values 102 and 111 and agent 2 nothing.
C3_Doctest ==
    (pc = "done" /\ valuation_matrix = DoctestMatrix) =>
        LET val(a) == agent_value_for_bundle(valuation_matrix, a,
                                             result[1][a])
        IN /\ thresholds = <<100, 100, 100>> =>
                /\ Given(0) /\ BundleOf(0) = {0, 6, 7, 8} /\ val(0) = 100
                /\ Given(1) /\ BundleOf(1) = {1, 4, 5} /\ val(1) = 101
                /\ Given(2) /\ BundleOf(2) = {2, 3} /\ val(2) = 102
           /\ thresholds = <<101, 101, 101>> =>
                /\ Given(0) /\ BundleOf(0) = {0, 5, 6, 7, 8} /\ val(0) = 102
                /\ Given(1) /\ BundleOf(1) = {1, 3, 4} /\ val(1) = 111
                /\ ~Given(2) /\ val(2) = 0

\* the doctest's second instance has returned
C3_Witness ==
    /\ pc = "done"
    /\ valuation_matrix = DoctestMatrix
    /\ thresholds = <<101, 101, 101>>
    /\ result # None

\* C4: when the call returns, every agent left without a bundle values the
\* whole list of still-unassigned objects strictly below its threshold.
C4_NoAgentCanBeSatisfied ==
    pc = "done" =>
        \A a \in DOMAIN bundles :
            ~Given(a) =>
                agent_value_for_bundle(valuation_matrix, a,
                                       Some(remaining_objects))
                    < thresholds[a + 1]

\* C5: an input with a row that has v[j] < v[j+1] raises the error that
\* names the lowest such agent and its row; an ordered input (equal
\* neighbours allowed) with another number of thresholds than agents raises
\* the error that names both counts; every other input is accepted; and a
\* raised call has created no allocation, no bag, no bundle and no result.
C5_InvalidInputRejected ==
    LET n == Len(valuation_matrix)
        bad == {i \in 0..(n - 1) : ~IsOrderedRow(valuation_matrix[i + 1])}
    IN pc # "start" =>
         /\ bad # {} =>
              /\ pc = "raised"
              /\ error.kind = "not ordered"
              /\ error.agent \in bad
              /\ \A i \in bad : error.agent <= i
              /\ error.row = valuation_matrix[error.agent + 1]
         /\ (bad = {} /\ Len(thresholds) # n) =>
              /\ pc = "raised"
              /\ error.kind = "thresholds differ"
              /\ error.agents = n
              /\ error.thresholds = Len(thresholds)
         /\ (bad = {} /\ Len(thresholds) = n) =>
              /\ pc # "raised"
              /\ created
              /\ error = NoError
         /\ pc = "raised" =>
              /\ ~created
              /\ bundles = <<>>
              /\ bag = <<>>
              /\ remaining_objects = <<>>
              /\ remaining_agents = <<>>
              /\ result = None

\* agent 0's row is ordered, agent 1's is not, and the thresholds do not
\* match the agents either
C5_Witness ==
    /\ pc = "raised"
    /\ error.kind = "not ordered"
    /\ error.agent = 1
    /\ Len(thresholds) # Len(valuation_matrix)

\* C6: the agent that fill returns is a remaining agent that values the bag
\* at or above its threshold, and no remaining agent that does so too comes
\* before it in remaining_agents (which is in ascending index order).
C6_FirstWillingAgent ==
    (pc = "decide" /\ willing_agent # NoAgent) =>
        LET willing(a) ==
                agent_value_for_bundle(valuation_matrix, a,
                                       Some(allocated_objects))
                    >= thresholds[a + 1]
        IN /\ IsIncreasing(remaining_agents)
           /\ willing_agent \in SeqRange(remaining_agents)
           /\ allocated_objects = bag
           /\ willing(willing_agent)
           /\ \A a \in SeqRange(remaining_agents) :
                 willing(a) => willing_agent <= a

\* two remaining agents are willing to take the same bag
C6_Witness ==
    /\ pc = "decide"
    /\ willing_agent # NoAgent
    /\ Cardinality({a \in SeqRange(remaining_agents) :
          agent_value_for_bundle(valuation_matrix, a, Some(bag))
              >= thresholds[a + 1]}) >= 2

HeadIsBest(ro) ==
    ro # <<>> =>
        \A a \in 1..Len(valuation_matrix) : \A k \in 1..Len(ro) :
            valuation_matrix[a][ro[1] + 1] >= valuation_matrix[a][ro[k] + 1]

\* C7: once the allocation exists, every step leaves remaining_objects and
\* remaining_agents a subsequence of what they were, remaining_objects is
\* an increasing list of objects of 0..m-1 (the initial order), and its
\* first element is a highest-valued remaining object for every agent.
C7_RemainingOnlyShrink ==
    [][/\ created' =>
            /\ IsIncreasing(remaining_objects')
            /\ IsSubseq(remaining_objects', objects(valuation_matrix))
            /\ HeadIsBest(remaining_objects')
       /\ created =>
            /\ IsSubseq(remaining_objects', remaining_objects)
            /\ IsSubseq(remaining_agents', remaining_agents)]_vars

\* a round starts with some objects and an agent removed and others left
C7_Witness ==
    /\ pc = "loop"
    /\ 0 < Len(remaining_objects)
    /\ Len(remaining_objects) < num_of_objects(valuation_matrix)
    /\ Len(remaining_agents) < num_of_agents(valuation_matrix)

---------------------------------------------------------------------------
(* Properties of normalize() and verify_normalized().                      *)

AllEqual(s) == \A i \in 1..Len(s) : s[i] = s[1]

\* L is the least positive common multiple of the numbers of s
IsLeastCommonMultiple(L, s) ==
    /\ L > 0
    /\ \A i \in 1..Len(s) : L % s[i] = 0
    /\ \A j \in 1..((L \div s[1]) - 1) :
          \E i \in 1..Len(s) : (j * s[1]) % s[i] # 0

\* C8: after normalize() of an integer matrix with positive row totals,
\* every row total is the returned value, which is the least common
\* multiple of the totals before; verify_normalized() then succeeds and
\* returns it; and a matrix whose row totals were equal already is left
\* as it was.
C8_NormalizeEqualizes ==
    normalize_returned # None =>
        LET L == normalize_returned[1]
            totals_before == total_values(before)
        IN /\ IsLeastCommonMultiple(L, totals_before)
           /\ \A i \in 1..Len(matrix_v) : SumSeq(matrix_v[i]) = L
           /\ verify_returned # None =>
                 verify_returned[1] = [raised |-> FALSE, value |-> L]
           /\ AllEqual(totals_before) => matrix_v = before

\* a matrix with unequal row totals has been normalized and verified
C8_Witness ==
    /\ normalize_returned # None
    /\ verify_returned # None
    /\ ~AllEqual(total_values(before))
    /\ matrix_v # before

---------------------------------------------------------------------------
(* Properties of the fairness predicates.                                  *)

\* all_bundles is a partition of the items and own_bundle is one of its
\* bundles
OwnInPartition ==
    /\ UNION SeqRange(all_bundles) = Items
    /\ \A i, j \in 1..Len(all_bundles) :
          i # j => all_bundles[i] \cap all_bundles[j] = {}
    /\ own_bundle \in SeqRange(all_bundles)

\* C9, as claimed: for every valuation, Monotone included, an agent that
\* finds its bundle of a partition of the items into n bundles envy-free
\* finds it proportional too.
C9_EFImpliesPROP ==
    (answers # None /\ OwnInPartition /\ answers[1].EF) => answers[1].PROP

\* C9, amended: the same for every Additive and every Binary valuation.
C9_EFImpliesPROP_Additive ==
    (/\ answers # None
     /\ valuation.kind \in {"Additive", "Binary"}
     /\ OwnInPartition
     /\ answers[1].EF) => answers[1].PROP

\* an additive agent finds its bundle, one of two that share the items,
\* envy-free and proportional, and the items are worth something to it
C9_Witness ==
    /\ answers # None
    /\ valuation.kind = "Additive"
    /\ OwnInPartition
    /\ Len(all_bundles) = 2
    /\ total_value(valuation) > 0
    /\ answers[1].EF
    /\ answers[1].PROP

\* C10: an agent that finds its bundle EFx finds it EF1.
C10_EFxImpliesEF1 ==
    (answers # None /\ answers[1].EFx) => answers[1].EF1

\* an agent envies a bundle of two items, but no longer once any one item
\* is taken out of it
C10_Witness ==
    /\ answers # None
    /\ answers[1].EFx
    /\ answers[1].EF1
    /\ ~answers[1].EF
    /\ \E k \in 1..Len(all_bundles) :
          /\ Cardinality(all_bundles[k]) >= 2
          /\ value(valuation, all_bundles[k]) > value(valuation, own_bundle)

---------------------------------------------------------------------------
(* The shape of a bundle and the number of rounds.                         *)

\* the first object of ro followed by its k last objects, last one first
TwoEnded(ro, k) == <<ro[1]>> \o [i \in 1..k |-> ro[Len(ro) - i + 1]]

\* some remaining agent values the bundle b at or above its threshold
SomeWilling(b) ==
    \E a \in SeqRange(remaining_agents) :
        agent_value_for_bundle(valuation_matrix, a, Some(b))
            >= thresholds[a + 1]

\* C11: the objects a round hands out are the first object of
\* remaining_objects as the round found it and its k last objects, for the
\* least k >= 1 that makes a remaining agent value them at or above its
\* threshold, also when the first object alone would do; the bundle the agent
\* gets is exactly these objects, and every bundle has at least two objects.
C11_TwoEndedBundle ==
    /\ (pc = "decide" /\ willing_agent # NoAgent) =>
          /\ Len(allocated_objects) >= 2
          /\ \E k \in 1..(Len(remaining_objects) - 1) :
                /\ allocated_objects = TwoEnded(remaining_objects, k)
                /\ SomeWilling(TwoEnded(remaining_objects, k))
                /\ \A j \in 1..(k - 1) :
                      ~SomeWilling(TwoEnded(remaining_objects, j))
    /\ (pc = "loop" /\ willing_agent # NoAgent) =>
          bundles[willing_agent] = Some(allocated_objects)
    /\ created =>
          \A a \in DOMAIN bundles : Given(a) => Len(bundles[a][1]) >= 2

\* a remaining agent values the first object alone at or above its
\* threshold, and the round still hands out that object with the last one
C11_Witness ==
    /\ pc = "decide"
    /\ willing_agent # NoAgent
    /\ SomeWilling(<<remaining_objects[1]>>)
    /\ allocated_objects = TwoEnded(remaining_objects, 1)

Min(a, b) == IF a <= b THEN a ELSE b

\* C12: a round that goes on to the next one takes exactly one agent and at
\* least one object off the remaining lists; the rounds that did so never
\* number more than min(n, m); the call always has a next step until it has
\* returned; and what it returns is the Allocation of the bundles.
C12_Terminates ==
    /\ [][(pc = "decide" /\ pc' = "loop") =>
             /\ rounds' = rounds + 1
             /\ Len(remaining_agents') = Len(remaining_agents) - 1
             /\ Len(remaining_objects') <= Len(remaining_objects) - 1]_vars
    /\ [](created =>
             rounds <= Min(num_of_agents(valuation_matrix),
                           num_of_objects(valuation_matrix)))
    /\ [](pc \in {"start", "loop", "decide"} => ENABLED Next)
    /\ [](pc = "done" => (created /\ result = Some(bundles)))

\* the call has returned after every agent was given a bundle, with objects
\* left over
C12_Witness ==
    /\ pc = "done"
    /\ result # None
    /\ rounds >= 1
    /\ rounds = num_of_agents(valuation_matrix)
    /\ remaining_agents = <<>>
    /\ remaining_objects # <<>>

===========================================================================
